---- MODULE Spec2Model ----
(***************************************************************************)
(* Execution of trading signals under the shared circuit breaker.          *)
(*                                                                         *)
(* apps/trading_core/execution_manager.py  ExecutionManager                *)
(* apps/trading_core/circuit_breaker.py    CircuitBreaker                  *)
(* apps/trading_core/models.py             TradingSignal, Order,           *)
(*                                         CircuitBreakerState             *)
(*                                                                         *)
(* The database is modelled at statement granularity: every ORM call is    *)
(* one step.  Statements issued inside transaction.atomic() are buffered   *)
(* in the caller's transaction and become visible to the other processes   *)
(* at COMMIT; an exception leaving the block discards them (ROLLBACK).     *)
(* select_for_update() takes the row lock of the signal, which is held     *)
(* until the transaction ends; an UPDATE of the row by another connection  *)
(* waits for that lock.                                                    *)
(***************************************************************************)
EXTENDS Integers, Sequences, FiniteSets, TLC

\* ---------------------------------------------------------------- bounds
NumExecutors == 2      \* concurrent callers of execute_trade on the signal
MaxCalls == 2          \* execute_trade invocations, all callers together
NumOperators == 1      \* processes calling CircuitBreaker directly
MaxOps == 2            \* direct CircuitBreaker calls, all processes together

\* scheduler tasks running DecisionManager.run_analysis at the same time
NumDeciders == 2
\* run_analysis invocations, all tasks together
MaxRuns == 2
\* ticks of the clock behind timezone.now()
MaxTime == 1
\* rows of the frame run_vectorized_backtest replays
NumBars == 4
\* length of the price series given to create_triple_barrier_target
NumPrices == 4
\* largest time_horizon it is called with
MaxHorizon == 3
\* rows of the frame simulate_final_system replays
NumSimBars == 27
\* leading rows of it on which the base signal may hold
NumSignalBars == 3

Executors == 1..NumExecutors
Operators == 1..NumOperators
Deciders == 1..NumDeciders

\* ------------------------------------------------------ program constants
SignalId == 1
InitialBalance == 10000
MaxDrawdownPct == 3
\* config.get('max_consecutive_losses', 5)
MaxConsecutiveLosses == 5
\* the [:10] slice of the recent EXECUTED signals
RecentWindow == 10

\* run_analysis: len(df_h1) < 200 or len(df_d1) < 50
MinH1Bars == 200
MinD1Bars == 50
\* run_analysis: d1_atr < 15.0 or d1_adx < 20.0
MinD1Atr == 15
MinD1Adx == 20
\* run_analysis: h1_rsi < 45, h1_adx > 20
MaxH1Rsi == 45
MinH1Adx == 20
\* ML_THRESHOLD = 0.60, in hundredths
MLThreshold == 60

\* what one cycle finds in the database and the model registry: the depth of
\* the two frames, the indicators of the latest bars, the registry entry and
\* whether building the features and predict_proba succeed, with the score in
\* hundredths
Markets ==
    [load_ok : BOOLEAN, h1_len : {199, 200}, d1_len : {49, 50},
     d1_atr : {14, 15}, d1_adx : {19, 20},
     above_ema : BOOLEAN, h1_rsi : {44, 45}, h1_adx : {20, 21}, green : BOOLEAN,
     registry : {"absent", "file_missing", "active"},
     infer_ok : BOOLEAN, ml_prob : {59, 60}]

\* a database with no bars and no registered model
NoMarket ==
    [load_ok |-> FALSE, h1_len |-> 199, d1_len |-> 49, d1_atr |-> 14,
     d1_adx |-> 19, above_ema |-> FALSE, h1_rsi |-> 45, h1_adx |-> 20,
     green |-> FALSE, registry |-> "absent", infer_ok |-> FALSE,
     ml_prob |-> 59]

\* bt_cfg.get('initial_capital', 10000.0)
InitialCapital == 10000
\* slippage_pct 0.0002 and commission_pct 0.0001, in units of 1/CostScale
CostScale == 10000
SlippagePct == 2
CommissionPct == 1

\* config['backtesting']: stop_loss_pct and take_profit_pct in hundredths, 0
\* for a key that is absent (None); the horizon key and the risk fraction
\* (in hundredths) are never read
Configs ==
    [stop_loss_pct : {0, 2}, take_profit_pct : {0, 4},
     max_holding_horizon : {1, 2}, risk_per_trade_fraction : {1, 2}]

\* the rows of df: a bar around its open, with the signals marked on it
Rows ==
    UNION {[open : {o}, low : {(o * 96) \div 100, (o * 98) \div 100, o},
            high : {o, (o * 104) \div 100},
            long_signal : {0, 1}, short_signal : {0, 1}] : o \in {100, 200}}

\* an empty frame has no row
NoRow == [open |-> 0, low |-> 0, high |-> 0, long_signal |-> 0, short_signal |-> 0]
\* position_details = {}
NoPosition ==
    [entry_time |-> 0, entry_price_after_costs |-> 0, stop_price |-> 0,
     tp_price |-> 0]
\* exit_price, exit_reason = None, None
NoExit == [price |-> 0, reason |-> "None"]
\* a metric of the returned dictionary: the literal 0.0 of the no-trades
\* return, or a value computed over the trades' returns and the equity curve
Literal(x) == [literal |-> TRUE, value |-> x, over |-> <<>>]
Computed(data) == [literal |-> FALSE, value |-> 0, over |-> data]
\* nothing returned yet
NoReport ==
    [num_trades |-> 0, final_capital |-> <<>>, returned |-> FALSE,
     total_return_pct |-> Literal(0), sharpe_ratio |-> Literal(0),
     max_drawdown_pct |-> Literal(0), trades |-> <<>>]

\* how a run_analysis call under trigger_decision_manager ended
NoOutcome == [ended |-> "", at |-> "", error |-> ""]
Outcome(how, stage, error) == [ended |-> how, at |-> stage, error |-> error]
Balances == {9600, 9700, 9800}
Modes == {"demo", "live"}

\* ------------------------------------------------------------- row values
NoReason == [kind |-> "None", dd |-> 0]
NoCancelReason == [prefix |-> "", reason |-> NoReason]
NoOrder == [signal |-> 0, status |-> "", broker_order_id |-> ""]
NoException == [type |-> "", msg |-> NoCancelReason]

\* how a call of execute_trade ended: whether it returned or raised, the
\* event it logged last and the exception it caught
NoResult == [ended |-> "", log |-> "", caught |-> ""]
Ended(how, event, caught) == [ended |-> how, log |-> event, caught |-> caught]

\* TradingSignal(status="PENDING", meta={...}) as get_or_create makes it
NewSignal == [status |-> "PENDING", cancel_reason |-> NoCancelReason]

\* CircuitBreakerState field defaults; exists = FALSE while there is no row
DefaultState ==
    [exists |-> TRUE, is_tripped |-> FALSE, tripped_at |-> "None",
     reason |-> NoReason, consecutive_losses |-> 0]
NoState == [DefaultState EXCEPT !.exists = FALSE]

VARIABLES
    signal,       \* the committed TradingSignal row
    orders,       \* the committed Order rows, in insertion order
    cb,           \* the committed CircuitBreakerState row (id = 1)
    lockHolder,   \* executor holding the signal's row lock, 0 if none
    pc,           \* executor -> position in execute_trade
    calls,        \* execute_trade invocations started
    mode,         \* executor -> self.mode
    selfSignal,   \* executor -> self.signal, the instance given to __init__
    locSig,       \* executor -> signal_to_execute
    txOrder,      \* executor -> Order row written in the open transaction
    txSignal,     \* executor -> TRUE when signal_to_execute was saved in it
    txState,      \* executor -> TRUE when the state row was created in it
    exc,          \* executor -> exception in flight
    result,       \* executor -> how the last invocation ended
    opc,          \* operator -> position in its CircuitBreaker call
    ops,          \* direct CircuitBreaker calls started
    opBalance,    \* operator -> current_balance
    opState,      \* operator -> state, the instance get_or_create returned
    opResult,     \* operator -> how its last call ended
    lossHistory,  \* consecutive losses among the latest EXECUTED signals
    market,       \* what the loader, the indicators and the registry return
    now,          \* timezone.now()
    signals,      \* the TradingSignal rows run_analysis created
    dpc,          \* decider -> position in run_analysis
    runs,         \* run_analysis invocations started
    dKey,         \* decider -> the timestamp given to get_or_create
    dRow,         \* decider -> id of the row get_or_create created, 0 if none
    dResult,      \* decider -> how its last invocation ended
    bpc,          \* position in run_vectorized_backtest
    config,       \* config['backtesting']
    numRows,      \* len(df)
    bar,          \* the loop index i, also the timestamp of row i
    current_row,  \* df.iloc[i] of the iteration last run
    in_position,  \* 0 flat, 1 long, -1 short
    position_details,
    trades,
    equity,       \* each point as the capital and the returns compounded on it
    dates,
    report,       \* the returned dictionary
    any_signal,   \* whether a row of df read so far marks long or short
    lpc,          \* position in create_triple_barrier_target
    prices,       \* the prices Series, by position
    volatility,   \* the volatility Series, in units of 1/VolScale
    time_horizon,
    target,       \* the returned Series
    rpc,          \* position of the caller of RiskManager
    rmArgs,       \* the arguments of the constructor and of the calculation
    rm,           \* the constructed RiskManager, NoManager if none
    rmResult,     \* what calculate_trade_parameters returned
    spc,          \* position in the simulation loop of simulate_final_system
    sim,          \* its inputs: costs mode, prices_df, indices, preds
    sk,           \* signals of indices the loop has gone through
    sim_trades,   \* trades, each with the bars its position was open
    sim_equity    \* equity, as the capital and the outcomes applied to it

dbVars == <<signal, orders, cb>>
execVars == <<pc, calls, mode, selfSignal, locSig, txOrder, txSignal, txState,
              exc, result>>
opVars == <<opc, ops, opBalance, opState, opResult>>
\* what execute_trade and the CircuitBreaker calls never write
decVars == <<market, now, signals, dpc, runs, dKey, dRow, dResult>>
btVars == <<bpc, config, numRows, bar, current_row, in_position,
           position_details, trades, equity, dates, report, any_signal>>
labVars == <<lpc, prices, volatility, time_horizon, target>>
\* the offline tools of the analytics app
riskVars == <<rpc, rmArgs, rm, rmResult>>
simVars == <<spc, sim, sk, sim_trades, sim_equity>>
toolVars == <<labVars, riskVars, simVars>>
restVars == <<lossHistory, decVars, btVars, toolVars>>
\* what run_analysis never writes, the execution it triggers set aside
notDecVars == <<signal, lockHolder, execVars, opVars, lossHistory, btVars,
               toolVars>>
\* what run_vectorized_backtest never touches
notBtVars == <<dbVars, lockHolder, execVars, opVars, lossHistory, decVars,
              toolVars>>
\* what the offline tools never touch
notToolVars == <<dbVars, lockHolder, execVars, opVars, lossHistory, decVars,
                btVars>>
vars == <<signal, orders, cb, lockHolder, pc, calls, mode, selfSignal, locSig,
          txOrder, txSignal, txState, exc, result, opc, ops, opBalance,
          opState, opResult, lossHistory, market, now, signals, dpc, runs,
          dKey, dRow, dResult, bpc, config, numRows, bar, current_row,
          in_position, position_details, trades, equity, dates, report,
          any_signal, toolVars>>

\* ---------------------------------------------------------------- helpers

\* Order.objects.filter(signal=s)
OrdersOf(s) == {i \in 1..Len(orders) : orders[i].signal = s}

\* a get_or_create(id=1) that has to INSERT waits for an uncommitted INSERT
\* of the same key by another connection
InsertPending(p) == \E q \in Executors : q # p /\ txState[q]

\* variant: the status test lets every signal through
AlreadyHandledNever(s) == FALSE

\* execute_trade: if signal_to_execute.status != "PENDING": return
AlreadyHandled(s) == s.status # "PENDING"

\* variant: check never raises
CheckRaisesNever(state) == FALSE

\* CircuitBreaker.check: if state.is_tripped: raise PermissionError(...)
CheckRaises(state) == state.is_tripped

\* CircuitBreaker.check: raise PermissionError(f"Circuit Breaker Tripped: ...")
TripMessage(state) == [prefix |-> "Circuit Breaker Tripped", reason |-> state.reason]

\* update_state: current_dd = (initial_balance - current_balance) / initial_balance
\* rendered as {current_dd*100:.2f}, i.e. in hundredths of a percent
DrawdownBp(balance) == ((InitialBalance - balance) * 10000) \div InitialBalance

\* variant: the boundary drawdown does not trip
DrawdownHitStrict(balance) ==
    (InitialBalance - balance) * 100 > MaxDrawdownPct * InitialBalance

\* update_state: if current_dd >= max_dd_pct
DrawdownHit(balance) ==
    (InitialBalance - balance) * 100 >= MaxDrawdownPct * InitialBalance

DrawdownReason(balance) == [kind |-> "Max Drawdown Limit Hit", dd |-> DrawdownBp(balance)]

\* _process_order: order.broker_order_id = f"demo_{signal_to_execute.id}"
DemoOrderId(s) == <<"demo_", s>>

\* variant: only the circuit breaker's PermissionError is caught
HandlerPermissionOnly(type) ==
    IF type = "PermissionError" THEN "cancel" ELSE "propagate"

\* _process_order: if self.mode == "live": raise RuntimeError(...)
\* variant: the safety lock is gone and live mode runs the demo branch
LiveTradingDisabledNever(m) == FALSE

LiveTradingDisabled(m) == m = "live"

\* the except clauses of execute_trade
Handler(type) ==
    IF type = "PermissionError" THEN "cancel"
    ELSE IF type \in {"RuntimeError", "IntegrityError"} THEN "failure"
    ELSE "propagate"

\* ------------------------------------------------------------------- Init
\* one PENDING signal, no Order, no state row, nobody in a call
InitExecution ==
    /\ signal = NewSignal
    /\ orders = <<>>
    /\ cb = NoState
    /\ lockHolder = 0
    /\ pc = [p \in Executors |-> "idle"]
    /\ calls = 0
    /\ mode = [p \in Executors |-> "demo"]
    /\ selfSignal = [p \in Executors |-> NewSignal]
    /\ locSig = [p \in Executors |-> NewSignal]
    /\ txOrder = [p \in Executors |-> NoOrder]
    /\ txSignal = [p \in Executors |-> FALSE]
    /\ txState = [p \in Executors |-> FALSE]
    /\ exc = [p \in Executors |-> NoException]
    /\ result = [p \in Executors |-> NoResult]
    /\ opc = [o \in Operators |-> "idle"]
    /\ ops = 0
    /\ opBalance = [o \in Operators |-> InitialBalance]
    /\ opState = [o \in Operators |-> NoState]
    /\ opResult = [o \in Operators |-> ""]

\* no EXECUTED signal has closed at a loss
NoLossHistory == lossHistory = 0

\* no scheduler task is running the decision pipeline
DecisionIdle ==
    /\ now = 0
    /\ signals = <<>>
    /\ dpc = [d \in Deciders |-> "idle"]
    /\ runs = 0
    /\ dKey = [d \in Deciders |-> 0]
    /\ dRow = [d \in Deciders |-> 0]
    /\ dResult = [d \in Deciders |-> NoOutcome]

\* the locals of a backtest that has not started
BacktestLocals ==
    /\ bar = 0
    /\ current_row = NoRow
    /\ in_position = 0
    /\ position_details = NoPosition
    /\ trades = <<>>
    /\ equity = <<>>
    /\ dates = <<>>
    /\ report = NoReport
    /\ any_signal = FALSE

\* no backtest is run
BacktestIdle ==
    /\ bpc = "off"
    /\ config = [stop_loss_pct |-> 0, take_profit_pct |-> 0,
                 max_holding_horizon |-> 1, risk_per_trade_fraction |-> 1]
    /\ numRows = 0
    /\ BacktestLocals

\* no labels are being built
BarrierIdle ==
    /\ lpc = "off"
    /\ prices = <<>>
    /\ volatility = <<>>
    /\ time_horizon = 0
    /\ target = <<>>

\* a risk fraction: milli thousandths plus a small excess, the excesses in
\* increasing order being 0, 1E-20, the excess of the double nearest 0.1 over
\* 0.1 (about 5.55E-18), and 5.56E-18
Fraction(m, e) == [milli |-> m, excess |-> e]
NoManager == [built |-> FALSE, account_balance |-> 0,
              risk_per_trade_pct |-> Fraction(0, 0),
              risk_amount |-> [balance |-> 0, pct |-> Fraction(0, 0)]]
NoParameters == [returned |-> "", position_size |-> <<>>, stop_loss |-> 0,
                 take_profit |-> 0]
NoArgs == [account_balance |-> 0, risk_per_trade_pct |-> Fraction(0, 0),
           df_len |-> 0, current_atr |-> 0, entry_price |-> 0,
           signal_type |-> ""]

\* no RiskManager is constructed
RiskIdle ==
    /\ rpc = "off"
    /\ rmArgs = NoArgs
    /\ rm = NoManager
    /\ rmResult = NoParameters

\* nothing is simulated
NoSim == [stress |-> FALSE, prices_df |-> <<>>, indices |-> <<>>,
          preds |-> <<>>]
SimulateIdle ==
    /\ spc = "off"
    /\ sim = NoSim
    /\ sk = 0
    /\ sim_trades = <<>>
    /\ sim_equity = <<>>

\* none of the offline tools is run
ToolsIdle == BarrierIdle /\ RiskIdle /\ SimulateIdle

Init ==
    /\ InitExecution
    /\ NoLossHistory
    /\ market = NoMarket
    /\ DecisionIdle
    /\ BacktestIdle
    /\ ToolsIdle

\* --------------------------------------------------------- execute_trade

\* ExecutionManager(signal).execute_trade(): __init__ keeps the instance it
\* is given and reads EXECUTION_MODE; the call enters transaction.atomic()
Begin(p) ==
    /\ pc[p] = "idle"
    /\ calls < MaxCalls
    /\ \E m \in Modes : mode' = [mode EXCEPT ![p] = m]
    /\ calls' = calls + 1
    /\ selfSignal' = [selfSignal EXCEPT ![p] = signal]
    /\ result' = [result EXCEPT ![p] = NoResult]
    /\ pc' = [pc EXCEPT ![p] = "select"]
    /\ UNCHANGED <<dbVars, lockHolder, locSig, txOrder, txSignal, txState, exc,
                   opVars, restVars>>

\* the call is over: its manager and locals are gone, p may call again
Return(p, how, event) ==
    /\ result' = [result EXCEPT ![p] = Ended(how, event, exc[p].type)]
    /\ pc' = [pc EXCEPT ![p] = "idle"]
    /\ mode' = [mode EXCEPT ![p] = "demo"]
    /\ selfSignal' = [selfSignal EXCEPT ![p] = NewSignal]
    /\ locSig' = [locSig EXCEPT ![p] = NewSignal]
    /\ exc' = [exc EXCEPT ![p] = NoException]

\* the row lock of select_for_update, held until the transaction ends
LockFree(p) == lockHolder = 0

\* TradingSignal.objects.select_for_update().get(pk=self.signal.pk)
SelectForUpdate(p) ==
    /\ pc[p] = "select"
    /\ LockFree(p)
    /\ lockHolder' = p
    /\ locSig' = [locSig EXCEPT ![p] = signal]
    /\ pc' = [pc EXCEPT ![p] = "locked"]
    /\ UNCHANGED <<dbVars, calls, mode, selfSignal, txOrder, txSignal, txState,
                   exc, result, opVars, restVars>>

\* status != "PENDING": return out of the atomic block, which commits the
\* (empty) transaction and releases the lock
NotPendingReturn(p) ==
    /\ pc[p] = "locked"
    /\ AlreadyHandled(locSig[p])
    /\ lockHolder' = 0
    /\ Return(p, "returned", "skipped")
    /\ UNCHANGED <<dbVars, calls, txOrder, txSignal, txState, opVars, restVars>>

\* CircuitBreaker.check() inside the atomic block
CircuitBreakerCheck(p) ==
    /\ pc[p] = "locked"
    /\ ~AlreadyHandled(locSig[p])
    /\ cb.exists \/ ~InsertPending(p)
    /\ txState' = [txState EXCEPT ![p] = ~cb.exists]
    /\ IF CheckRaises(cb)
       THEN /\ exc' = [exc EXCEPT ![p] =
                         [type |-> "PermissionError", msg |-> TripMessage(cb)]]
            /\ pc' = [pc EXCEPT ![p] = "rollback"]
       ELSE /\ pc' = [pc EXCEPT ![p] = "create_order"]
            /\ UNCHANGED exc
    /\ UNCHANGED <<dbVars, lockHolder, calls, mode, selfSignal, locSig, txOrder,
                   txSignal, result, opVars, restVars>>

\* _process_order: Order.objects.create(signal=signal_to_execute, status="SENT");
\* Order.signal is a OneToOneField, a second row for the signal is refused
CreateOrder(p) ==
    /\ pc[p] = "create_order"
    /\ IF OrdersOf(SignalId) # {}
       THEN /\ exc' = [exc EXCEPT ![p] =
                         [type |-> "IntegrityError", msg |-> NoCancelReason]]
            /\ pc' = [pc EXCEPT ![p] = "rollback"]
            /\ UNCHANGED txOrder
       ELSE /\ txOrder' = [txOrder EXCEPT ![p] =
                  [signal |-> SignalId, status |-> "SENT", broker_order_id |-> "None"]]
            /\ pc' = [pc EXCEPT ![p] = "place"]
            /\ UNCHANGED exc
    /\ UNCHANGED <<dbVars, lockHolder, calls, mode, selfSignal, locSig, txSignal,
                   txState, result, opVars, restVars>>

\* _process_order: live mode raises RuntimeError; demo mode fills the order
\* and saves it (order.save())
PlaceOrder(p) ==
    /\ pc[p] = "place"
    /\ IF LiveTradingDisabled(mode[p])
       THEN /\ exc' = [exc EXCEPT ![p] =
                         [type |-> "RuntimeError", msg |-> NoCancelReason]]
            /\ pc' = [pc EXCEPT ![p] = "rollback"]
            /\ UNCHANGED txOrder
       ELSE /\ txOrder' = [txOrder EXCEPT ![p] =
                  [@ EXCEPT !.status = "FILLED",
                            !.broker_order_id = DemoOrderId(SignalId)]]
            /\ pc' = [pc EXCEPT ![p] = "signal_save"]
            /\ UNCHANGED exc
    /\ UNCHANGED <<dbVars, lockHolder, calls, mode, selfSignal, locSig, txSignal,
                   txState, result, opVars, restVars>>

\* variant: the status is set on the instance but the instance is not saved
SignalSaveForgotten(p) ==
    /\ pc[p] = "signal_save"
    /\ locSig' = [locSig EXCEPT ![p] = [@ EXCEPT !.status = "EXECUTED"]]
    /\ pc' = [pc EXCEPT ![p] = "commit"]
    /\ UNCHANGED <<dbVars, lockHolder, calls, mode, selfSignal, txOrder, txSignal,
                   txState, exc, result, opVars, restVars>>

\* _process_order: signal_to_execute.status = "EXECUTED"; signal_to_execute.save()
SignalSave(p) ==
    /\ pc[p] = "signal_save"
    /\ locSig' = [locSig EXCEPT ![p] = [@ EXCEPT !.status = "EXECUTED"]]
    /\ txSignal' = [txSignal EXCEPT ![p] = TRUE]
    /\ pc' = [pc EXCEPT ![p] = "commit"]
    /\ UNCHANGED <<dbVars, lockHolder, calls, mode, selfSignal, txOrder, txState,
                   exc, result, opVars, restVars>>

\* leaving the atomic block normally: COMMIT publishes the transaction's rows
\* and releases the lock; the logging that follows touches no state
Commit(p) ==
    /\ pc[p] = "commit"
    /\ orders' = Append(orders, txOrder[p])
    /\ signal' = IF txSignal[p] THEN locSig[p] ELSE signal
    /\ cb' = IF txState[p] /\ ~cb.exists THEN DefaultState ELSE cb
    /\ lockHolder' = 0
    /\ txOrder' = [txOrder EXCEPT ![p] = NoOrder]
    /\ txSignal' = [txSignal EXCEPT ![p] = FALSE]
    /\ txState' = [txState EXCEPT ![p] = FALSE]
    /\ Return(p, "returned", "completed")
    /\ UNCHANGED <<calls, opVars, restVars>>

\* variant: the Order row written before the exception survives the block
RollbackKeepsOrder(p) ==
    /\ pc[p] = "rollback"
    /\ lockHolder' = 0
    /\ orders' = IF txOrder[p] = NoOrder THEN orders
                 ELSE Append(orders, txOrder[p])
    /\ txOrder' = [txOrder EXCEPT ![p] = NoOrder]
    /\ txSignal' = [txSignal EXCEPT ![p] = FALSE]
    /\ txState' = [txState EXCEPT ![p] = FALSE]
    /\ pc' = [pc EXCEPT ![p] = "except"]
    /\ UNCHANGED <<signal, cb, calls, mode, selfSignal, locSig, exc, result,
                   opVars, restVars>>

\* an exception leaving the atomic block: ROLLBACK discards the transaction's
\* rows and releases the lock
Rollback(p) ==
    /\ pc[p] = "rollback"
    /\ lockHolder' = 0
    /\ txOrder' = [txOrder EXCEPT ![p] = NoOrder]
    /\ txSignal' = [txSignal EXCEPT ![p] = FALSE]
    /\ txState' = [txState EXCEPT ![p] = FALSE]
    /\ pc' = [pc EXCEPT ![p] = "except"]
    /\ UNCHANGED <<dbVars, calls, mode, selfSignal, locSig, exc, result, opVars, restVars>>

\* except PermissionError: _handle_cancellation(str(e)) saves self.signal,
\* every column of it, outside the transaction
HandleCancellation(p) ==
    /\ lockHolder = 0
    /\ signal' = [selfSignal[p] EXCEPT !.status = "CANCELLED",
                                        !.cancel_reason = exc[p].msg]
    /\ Return(p, "returned", "cancelled")
    /\ UNCHANGED <<orders, cb, lockHolder, calls, txOrder, txSignal, txState,
                   opVars, restVars>>

\* except Exception: _handle_failure(str(e)) marks the signal's orders FAILED
\* and leaves the signal alone
HandleFailure(p) ==
    /\ orders' = [i \in 1..Len(orders) |->
                    IF orders[i].signal = SignalId
                    THEN [orders[i] EXCEPT !.status = "FAILED"]
                    ELSE orders[i]]
    /\ Return(p, "returned", "failed")
    /\ UNCHANGED <<signal, cb, lockHolder, calls, txOrder, txSignal, txState,
                   opVars, restVars>>

\* an exception no except clause matches reaches the caller
Propagate(p) ==
    /\ Return(p, "raised", "")
    /\ UNCHANGED <<dbVars, lockHolder, calls, txOrder, txSignal, txState, opVars, restVars>>

\* execute_trade: the except clauses, entered once the atomic block is left
Except(p) ==
    /\ pc[p] = "except"
    /\ CASE Handler(exc[p].type) = "cancel" -> HandleCancellation(p)
         [] Handler(exc[p].type) = "failure" -> HandleFailure(p)
         [] OTHER -> Propagate(p)

\* -------------------------------------------------------- CircuitBreaker

\* state, _ = CircuitBreakerState.objects.get_or_create(id=1), autocommit
GetOrCreate(o) ==
    /\ cb.exists \/ ~InsertPending(0)
    /\ cb' = IF cb.exists THEN cb ELSE DefaultState
    /\ opState' = [opState EXCEPT ![o] = cb']

\* CircuitBreaker.update_state(current_balance): the configuration is read
\* and the state row fetched
UpdateStateBegin(o) ==
    /\ opc[o] = "idle"
    /\ ops < MaxOps
    /\ ops' = ops + 1
    /\ \E b \in Balances : opBalance' = [opBalance EXCEPT ![o] = b]
    /\ GetOrCreate(o)
    /\ opResult' = [opResult EXCEPT ![o] = ""]
    /\ opc' = [opc EXCEPT ![o] = "update_state"]
    /\ UNCHANGED <<signal, orders, lockHolder, execVars, restVars>>

\* variant: a balance back inside the limit clears the trip and saves
UpdateStateEndAutoRecovery(o) ==
    /\ opc[o] = "update_state"
    /\ IF DrawdownHit(opBalance[o])
       THEN cb' = [opState[o] EXCEPT !.is_tripped = TRUE,
                                     !.reason = DrawdownReason(opBalance[o]),
                                     !.tripped_at = "now"]
       ELSE cb' = [opState[o] EXCEPT !.is_tripped = FALSE]
    /\ opState' = [opState EXCEPT ![o] = NoState]
    /\ opBalance' = [opBalance EXCEPT ![o] = InitialBalance]
    /\ opResult' = [opResult EXCEPT ![o] = "returned"]
    /\ opc' = [opc EXCEPT ![o] = "idle"]
    /\ UNCHANGED <<signal, orders, lockHolder, execVars, restVars, ops>>

\* update_state: the drawdown test; a hit saves the tripped state, anything
\* else leaves the row as it is
UpdateStateEnd(o) ==
    /\ opc[o] = "update_state"
    /\ IF DrawdownHit(opBalance[o])
       THEN cb' = [opState[o] EXCEPT !.is_tripped = TRUE,
                                     !.reason = DrawdownReason(opBalance[o]),
                                     !.tripped_at = "now"]
       ELSE UNCHANGED cb
    /\ opState' = [opState EXCEPT ![o] = NoState]
    /\ opBalance' = [opBalance EXCEPT ![o] = InitialBalance]
    /\ opResult' = [opResult EXCEPT ![o] = "returned"]
    /\ opc' = [opc EXCEPT ![o] = "idle"]
    /\ UNCHANGED <<signal, orders, lockHolder, execVars, restVars, ops>>

\* CircuitBreaker.reset(): the state row is fetched
ResetBegin(o) ==
    /\ opc[o] = "idle"
    /\ ops < MaxOps
    /\ ops' = ops + 1
    /\ GetOrCreate(o)
    /\ opResult' = [opResult EXCEPT ![o] = ""]
    /\ opc' = [opc EXCEPT ![o] = "reset"]
    /\ UNCHANGED <<signal, orders, lockHolder, execVars, restVars, opBalance>>

\* reset: is_tripped, reason and consecutive_losses cleared, the row saved
ResetEnd(o) ==
    /\ opc[o] = "reset"
    /\ cb' = [opState[o] EXCEPT !.is_tripped = FALSE, !.reason = NoReason,
                                !.consecutive_losses = 0]
    /\ opState' = [opState EXCEPT ![o] = NoState]
    /\ opResult' = [opResult EXCEPT ![o] = "returned"]
    /\ opc' = [opc EXCEPT ![o] = "idle"]
    /\ UNCHANGED <<signal, orders, lockHolder, execVars, restVars, ops, opBalance>>

\* CircuitBreaker.check() called on its own
Check(o) ==
    /\ opc[o] = "idle"
    /\ ops < MaxOps
    /\ ops' = ops + 1
    /\ cb.exists \/ ~InsertPending(0)
    /\ cb' = IF cb.exists THEN cb ELSE DefaultState
    /\ UNCHANGED opState
    /\ opResult' = [opResult EXCEPT ![o] =
           IF CheckRaises(cb') THEN "PermissionError" ELSE "returned"]
    /\ opc' = [opc EXCEPT ![o] = "idle"]
    /\ UNCHANGED <<signal, orders, lockHolder, execVars, restVars, opBalance>>

\* ------------------------------------------------------------------- Next
Next ==
    \/ \E p \in Executors : Begin(p)
    \/ \E p \in Executors : SelectForUpdate(p)
    \/ \E p \in Executors : NotPendingReturn(p)
    \/ \E p \in Executors : CircuitBreakerCheck(p)
    \/ \E p \in Executors : CreateOrder(p)
    \/ \E p \in Executors : PlaceOrder(p)
    \/ \E p \in Executors : SignalSave(p)
    \/ \E p \in Executors : Commit(p)
    \/ \E p \in Executors : Rollback(p)
    \/ \E p \in Executors : Except(p)
    \/ \E o \in Operators : UpdateStateBegin(o)
    \/ \E o \in Operators : UpdateStateEnd(o)
    \/ \E o \in Operators : ResetBegin(o)
    \/ \E o \in Operators : ResetEnd(o)
    \/ \E o \in Operators : Check(o)

Spec == Init /\ [][Next]_vars

\* --------------------------------------- the CircuitBreaker called directly
\* the breaker's own calls over a table of EXECUTED signals of which the
\* latest lossHistory closed at a loss; nobody executes a trade meanwhile
InitBreaker ==
    /\ InitExecution
    /\ lossHistory \in 0..RecentWindow
    /\ market = NoMarket
    /\ DecisionIdle
    /\ BacktestIdle
    /\ ToolsIdle

NextBreaker ==
    \/ \E o \in Operators : UpdateStateBegin(o)
    \/ \E o \in Operators : UpdateStateEnd(o)
    \/ \E o \in Operators : ResetBegin(o)
    \/ \E o \in Operators : ResetEnd(o)
    \/ \E o \in Operators : Check(o)

SpecBreaker == InitBreaker /\ [][NextBreaker]_vars

\* ------------------------------------------- DecisionManager.run_analysis

\* run_analysis: len(df_h1) < 200 or len(df_d1) < 50
InsufficientDepth(m) == m.h1_len < MinH1Bars \/ m.d1_len < MinD1Bars

\* run_analysis: d1_atr < 15.0 or d1_adx < 20.0
RegimeUnsafe(m) == m.d1_atr < MinD1Atr \/ m.d1_adx < MinD1Adx

\* run_analysis: is_signal, uptrend + oversold + local strength + green candle
IsSignal(m) ==
    /\ m.above_ema
    /\ m.h1_rsi < MaxH1Rsi
    /\ m.h1_adx > MinH1Adx
    /\ m.green

\* variant: the classifier's score is logged and never acted on
MLRejectsNever(prob) == FALSE

\* run_analysis: if ml_prob < ML_THRESHOLD
MLRejects(prob) == prob < MLThreshold

\* TradingSignal.objects.filter(asset=self.asset, timestamp=t)
SignalsAt(t) == {k \in 1..Len(signals) : signals[k].timestamp = t}

\* the call is over, by a return or by an exception that nothing catches on
\* its way through run_analysis and trigger_decision_manager
Quit(d, how, stage, error) ==
    /\ dResult' = [dResult EXCEPT ![d] = Outcome(how, stage, error)]
    /\ dpc' = [dpc EXCEPT ![d] = "idle"]
    /\ dKey' = [dKey EXCEPT ![d] = 0]
    /\ dRow' = [dRow EXCEPT ![d] = 0]

\* a stage of the pipeline passed, the next one is stage
Proceed(d, stage) ==
    /\ dpc' = [dpc EXCEPT ![d] = stage]
    /\ UNCHANGED <<dKey, dRow, dResult>>

\* trigger_decision_manager: DecisionManager(symbol, timeframe).run_analysis()
TriggerDecisionManager(d) ==
    /\ dpc[d] = "idle"
    /\ runs < MaxRuns
    /\ runs' = runs + 1
    /\ dResult' = [dResult EXCEPT ![d] = NoOutcome]
    /\ dpc' = [dpc EXCEPT ![d] = "load"]
    /\ UNCHANGED <<market, now, signals, dKey, dRow, orders, cb, notDecVars>>

\* 1. the two frames are loaded, any exception ends the cycle; so does a
\* frame that is too short
LoadData(d) ==
    /\ dpc[d] = "load"
    /\ IF ~market.load_ok
       THEN Quit(d, "returned", "Data Load Failed", "")
       ELSE IF InsufficientDepth(market)
            THEN Quit(d, "returned", "Insufficient Data Depth", "")
            ELSE Proceed(d, "regime")
    /\ UNCHANGED <<market, now, signals, runs, orders, cb, notDecVars>>

\* 2. the macro regime check on the daily frame
RegimeCheck(d) ==
    /\ dpc[d] = "regime"
    /\ IF RegimeUnsafe(market)
       THEN Quit(d, "returned", "REGIME FILTER: MARKET UNSAFE", "")
       ELSE Proceed(d, "strategy")
    /\ UNCHANGED <<market, now, signals, runs, orders, cb, notDecVars>>

\* 3. the strategy signal on the hourly frame
StrategySignal(d) ==
    /\ dpc[d] = "strategy"
    /\ IF ~IsSignal(market)
       THEN Quit(d, "returned", "no signal", "")
       ELSE Proceed(d, "model")
    /\ UNCHANGED <<market, now, signals, runs, orders, cb, notDecVars>>

\* 4. model_info = get_active_model(): filter(is_active=True).first() is None
\* without an active entry and registry_entry.model_path raises
\* AttributeError, which the except (ObjectDoesNotExist, FileNotFoundError)
\* of get_active_model lets through; a missing file makes it return None
GetActiveModel(d) ==
    /\ dpc[d] = "model"
    /\ CASE market.registry = "absent"
              -> Quit(d, "raised", "get_active_model", "AttributeError")
         [] market.registry = "file_missing"
              -> Quit(d, "returned", "No Active ML Model", "")
         [] OTHER -> Proceed(d, "gatekeeper")
    /\ UNCHANGED <<market, now, signals, runs, orders, cb, notDecVars>>

\* 4. the features are built and the classifier queried inside try/except
\* Exception; a score under the threshold ends the cycle
MLGatekeeper(d) ==
    /\ dpc[d] = "gatekeeper"
    /\ IF ~market.infer_ok
       THEN Quit(d, "returned", "ML Inference Error", "")
       ELSE IF MLRejects(market.ml_prob)
            THEN Quit(d, "returned", "ML REJECTED SIGNAL", "")
            ELSE Proceed(d, "select")
    /\ UNCHANGED <<market, now, signals, runs, orders, cb, notDecVars>>

\* 6. get_or_create(asset=self.asset, timestamp=timezone.now(), defaults=...):
\* the lookup; the sizing before it only computes the defaults (stop_dist is
\* at least 2.5, so its zero test never returns)
SignalGet(d) ==
    /\ dpc[d] = "select"
    /\ CASE Cardinality(SignalsAt(now)) = 0
              -> /\ dKey' = [dKey EXCEPT ![d] = now]
                 /\ dpc' = [dpc EXCEPT ![d] = "insert"]
                 /\ UNCHANGED <<dRow, dResult>>
         [] Cardinality(SignalsAt(now)) = 1
              -> Quit(d, "returned", "existing", "")
         [] OTHER
              -> Quit(d, "raised", "get_or_create", "MultipleObjectsReturned")
    /\ UNCHANGED <<market, now, signals, runs, orders, cb, notDecVars>>

\* get_or_create: the lookup found nothing, the row is created; no constraint
\* of TradingSignal covers (asset, timestamp), the INSERT always succeeds
SignalCreate(d) ==
    /\ dpc[d] = "insert"
    /\ signals' = Append(signals, [timestamp |-> dKey[d], status |-> "PENDING"])
    /\ dRow' = [dRow EXCEPT ![d] = Len(signals) + 1]
    /\ dpc' = [dpc EXCEPT ![d] = "execute"]
    /\ UNCHANGED <<market, now, runs, dKey, dResult, orders, cb, notDecVars>>

\* if created: ExecutionManager(signal).execute_trade(), on a row no other
\* caller has: a tripped breaker cancels it, live mode loses the Order in the
\* rollback and leaves it PENDING, demo mode fills the Order and executes it
ExecuteTrade(d) ==
    /\ dpc[d] = "execute"
    /\ \E m \in Modes :
         IF CheckRaises(cb)
         THEN /\ signals' = [signals EXCEPT ![dRow[d]].status = "CANCELLED"]
              /\ UNCHANGED <<orders, cb>>
         ELSE IF LiveTradingDisabled(m)
              THEN UNCHANGED <<signals, orders, cb>>
              ELSE /\ signals' = [signals EXCEPT ![dRow[d]].status = "EXECUTED"]
                   /\ orders' = Append(orders,
                          [signal |-> dRow[d], status |-> "FILLED",
                           broker_order_id |-> DemoOrderId(dRow[d])])
                   /\ cb' = IF cb.exists THEN cb ELSE DefaultState
    /\ Quit(d, "returned", "executed", "")
    /\ UNCHANGED <<market, now, runs, notDecVars>>

\* time passes
Tick ==
    /\ now < MaxTime
    /\ now' = now + 1
    /\ UNCHANGED <<market, signals, dpc, runs, dKey, dRow, dResult, orders, cb,
                   notDecVars>>

\* the scheduler's tasks over one market snapshot, the same for every cycle
InitDecision ==
    /\ InitExecution
    /\ NoLossHistory
    /\ market \in Markets
    /\ DecisionIdle
    /\ BacktestIdle
    /\ ToolsIdle

NextDecision ==
    \/ \E d \in Deciders : TriggerDecisionManager(d)
    \/ \E d \in Deciders : LoadData(d)
    \/ \E d \in Deciders : RegimeCheck(d)
    \/ \E d \in Deciders : StrategySignal(d)
    \/ \E d \in Deciders : GetActiveModel(d)
    \/ \E d \in Deciders : MLGatekeeper(d)
    \/ \E d \in Deciders : SignalGet(d)
    \/ \E d \in Deciders : SignalCreate(d)
    \/ \E d \in Deciders : ExecuteTrade(d)
    \/ Tick

SpecDecision == InitDecision /\ [][NextDecision]_vars

\* ------------------------------------------------ run_vectorized_backtest

\* a row of signals_df with long_signal or short_signal set
Marked(row) == row.long_signal > 0 \/ row.short_signal > 0

\* variant: a signal on the previous row enters whatever the other column says
EnterLongUnfiltered(prev) == prev.long_signal > 0

\* df['enter_long']: long_signal.shift(1) > 0, cleared where enter_short is
\* set as well
EnterLong(prev) == prev.long_signal > 0 /\ ~(prev.short_signal > 0)

\* df['enter_short'], likewise
EnterShort(prev) == prev.short_signal > 0 /\ ~(prev.long_signal > 0)

\* variant: the entry check does not look at the open position
IsFlatAlways(pos) == TRUE

\* 2. if in_position == 0
IsFlat(pos) == pos = 0

\* variant: the target is tested before the stop
ExitCheckTargetFirst(pos, details, row, cfg) ==
    IF pos = 1
    THEN IF cfg.take_profit_pct # 0 /\ row.high >= details.tp_price
         THEN [price |-> details.tp_price, reason |-> "TP"]
         ELSE IF cfg.stop_loss_pct # 0 /\ row.low <= details.stop_price
              THEN [price |-> details.stop_price, reason |-> "SL"]
              ELSE NoExit
    ELSE IF cfg.take_profit_pct # 0 /\ row.low <= details.tp_price
         THEN [price |-> details.tp_price, reason |-> "TP"]
         ELSE IF cfg.stop_loss_pct # 0 /\ row.high >= details.stop_price
              THEN [price |-> details.stop_price, reason |-> "SL"]
              ELSE NoExit

\* 1. the exit check of a bar: the stop first, then the target, each only
\* when its percentage is configured
ExitCheck(pos, details, row, cfg) ==
    IF pos = 1
    THEN IF cfg.stop_loss_pct # 0 /\ row.low <= details.stop_price
         THEN [price |-> details.stop_price, reason |-> "SL"]
         ELSE IF cfg.take_profit_pct # 0 /\ row.high >= details.tp_price
              THEN [price |-> details.tp_price, reason |-> "TP"]
              ELSE NoExit
    ELSE IF cfg.stop_loss_pct # 0 /\ row.high >= details.stop_price
         THEN [price |-> details.stop_price, reason |-> "SL"]
         ELSE IF cfg.take_profit_pct # 0 /\ row.low <= details.tp_price
              THEN [price |-> details.tp_price, reason |-> "TP"]
              ELSE NoExit

\* pnl_pct, kept as an exact fraction: prices after costs are in units of
\* 1/CostScale
PnlPct(pos, details, exit_price) ==
    IF pos = 1
    THEN [num |-> exit_price * (CostScale - SlippagePct - CommissionPct)
                    - details.entry_price_after_costs,
          den |-> details.entry_price_after_costs]
    ELSE [num |-> details.entry_price_after_costs
                    - exit_price * (CostScale + SlippagePct + CommissionPct),
          den |-> exit_price * (CostScale + SlippagePct + CommissionPct)]

\* variant: the closing trade's return rewrites the last point
EquityRevised(eq, pnl_pct) ==
    [eq EXCEPT ![Len(eq)] = [@ EXCEPT !.growth = Append(@, pnl_pct)]]

\* equity.append(equity[-1] * (1 + pnl_pct))
EquityAppended(eq, pnl_pct) ==
    Append(eq, [eq[Len(eq)] EXCEPT !.growth = Append(@, pnl_pct)])

\* position_details of an entry at the open of row, on bar t
Entered(trade_type, row, t, cfg) ==
    IF trade_type = 1
    THEN [entry_time |-> t,
          entry_price_after_costs |->
              row.open * (CostScale + SlippagePct + CommissionPct),
          stop_price |-> IF cfg.stop_loss_pct # 0
                         THEN (row.open * (100 - cfg.stop_loss_pct)) \div 100
                         ELSE 0,
          tp_price |-> IF cfg.take_profit_pct # 0
                       THEN (row.open * (100 + cfg.take_profit_pct)) \div 100
                       ELSE 0]
    ELSE [entry_time |-> t,
          entry_price_after_costs |->
              row.open * (CostScale - SlippagePct - CommissionPct),
          stop_price |-> IF cfg.stop_loss_pct # 0
                         THEN (row.open * (100 + cfg.stop_loss_pct)) \div 100
                         ELSE 0,
          tp_price |-> IF cfg.take_profit_pct # 0
                       THEN (row.open * (100 - cfg.take_profit_pct)) \div 100
                       ELSE 0]

\* the configuration is read, the frames joined and sorted, the entry columns
\* computed, and trades, equity and dates set up; the index of the sorted
\* frame is 0, 1, 2, ... and dates starts with its first stamp
BacktestStart ==
    /\ bpc = "start"
    /\ \E row \in Rows : current_row' = IF numRows = 0 THEN NoRow ELSE row
    /\ any_signal' = Marked(current_row')
    /\ trades' = <<>>
    /\ equity' = <<[capital |-> InitialCapital, growth |-> <<>>]>>
    /\ dates' = <<0>>
    /\ in_position' = 0
    /\ position_details' = NoPosition
    /\ bar' = 1
    /\ bpc' = "loop"
    /\ UNCHANGED <<config, numRows, report, notBtVars>>

\* one iteration of for i in range(1, len(df)): the exit check, then the
\* entry check on the same row
BacktestBar ==
    /\ bpc = "loop"
    /\ bar < numRows
    /\ \E row \in Rows :
         LET exit == IF in_position # 0
                     THEN ExitCheck(in_position, position_details, row, config)
                     ELSE NoExit
             closed == exit.price # 0
             pnl_pct == PnlPct(in_position, position_details, exit.price)
             pos == IF closed THEN 0 ELSE in_position
             details == IF closed THEN NoPosition ELSE position_details
             trade_type == IF EnterLong(current_row) THEN 1
                           ELSE IF EnterShort(current_row) THEN -1 ELSE 0
             enters == IsFlat(pos) /\ trade_type # 0
         IN  /\ current_row' = row
             /\ any_signal' = (any_signal \/ Marked(row))
             /\ trades' = IF closed
                          THEN Append(trades,
                                 [entry_time |-> position_details.entry_time,
                                  exit_time |-> bar,
                                  pnl_pct |-> pnl_pct,
                                  exit_reason |-> exit.reason,
                                  trade_type |-> IF in_position = 1
                                                 THEN "LONG" ELSE "SHORT"])
                          ELSE trades
             /\ equity' = IF closed THEN EquityAppended(equity, pnl_pct)
                          ELSE equity
             /\ dates' = IF closed THEN Append(dates, bar) ELSE dates
             /\ in_position' = IF enters THEN trade_type ELSE pos
             /\ position_details' = IF enters
                                    THEN Entered(trade_type, row, bar, config)
                                    ELSE details
    /\ bar' = bar + 1
    /\ UNCHANGED <<bpc, config, numRows, report, notBtVars>>

\* variant: the metrics are computed whether or not there are trades
NoTradesNever(ts) == FALSE

\* if not trades
NoTrades(ts) == ts = <<>>

\* the loop is over: without trades the neutral dictionary is returned, with
\* trades the metrics are computed from the trades' returns and the equity
\* curve; a position still open is left out
BacktestReturn ==
    /\ bpc = "loop"
    /\ bar >= numRows
    /\ report' =
         IF NoTrades(trades)
         THEN [num_trades |-> 0,
               final_capital |-> [capital |-> InitialCapital, growth |-> <<>>],
               returned |-> TRUE,
               total_return_pct |-> Literal(0), sharpe_ratio |-> Literal(0),
               max_drawdown_pct |-> Literal(0), trades |-> <<>>]
         ELSE [num_trades |-> Len(trades),
               final_capital |-> equity[Len(equity)],
               returned |-> TRUE,
               total_return_pct |-> Computed(<<equity[Len(equity)]>>),
               sharpe_ratio |->
                   Computed([k \in 1..Len(trades) |-> trades[k].pnl_pct]),
               max_drawdown_pct |-> Computed(equity),
               trades |-> trades]
    /\ bpc' = "done"
    /\ UNCHANGED <<config, numRows, bar, current_row, in_position,
                   position_details, trades, equity, dates, any_signal,
                   notBtVars>>

\* one backtest over any frame of up to NumBars rows and any configuration
InitBacktest ==
    /\ InitExecution
    /\ NoLossHistory
    /\ market = NoMarket
    /\ DecisionIdle
    /\ bpc = "start"
    /\ config \in Configs
    /\ numRows \in 0..NumBars
    /\ BacktestLocals
    /\ ToolsIdle

NextBacktest ==
    \/ BacktestStart
    \/ BacktestBar
    \/ BacktestReturn

SpecBacktest == InitBacktest /\ [][NextBacktest]_vars

\* ------------------------------------------- create_triple_barrier_target
\* volatility is kept in units of 1/VolScale; pt_multiplier=2.0,
\* sl_multiplier=1.5 (in halves) and min_ret=0.0005 are the defaults of the
\* signature
VolScale == 100000
pt_multiplier == 2
sl_multiplier_halves == 3
min_ret == 50

\* the series it is given: prices around 100, and per index a volatility of
\* 0, of 0.00025 (volatility * pt_multiplier equal to min_ret) or of 0.02
\* (barriers of a price of 100 exactly at 104 and at 97)
PriceValues == {97, 100, 104}
VolatilityValues == {0, 25, 2000}

\* np.inf in first_touch_up and first_touch_down: later than every step
Inf == MaxHorizon + 2

\* (future_p >= upper_barrier)[t], upper_barrier = prices * (1 + volatility *
\* pt_multiplier) and future_p[t] = price_vals[t + step], NaN past the end of
\* the series, which compares False
HitUp(P, V, t, step) ==
    /\ t + step <= Len(P)
    /\ P[t + step] * VolScale >= P[t] * (VolScale + V[t] * pt_multiplier)

\* (future_p <= lower_barrier)[t], lower_barrier = prices * (1 - volatility *
\* sl_multiplier)
HitDown(P, V, t, step) ==
    /\ t + step <= Len(P)
    /\ P[t + step] * 2 * VolScale
         <= P[t] * (2 * VolScale - V[t] * sl_multiplier_halves)

\* variant: every touch is recorded, the last one stays
RecordTouchLast(hit, first, step) == IF hit THEN step ELSE first

\* first_touch[hit & (first_touch == np.inf)] = step
RecordTouch(hit, first, step) ==
    IF hit /\ first = Inf THEN step ELSE first

\* first_touch_up and first_touch_down before the first step
NoTouch(P) == [up |-> [t \in 1..Len(P) |-> Inf],
               down |-> [t \in 1..Len(P) |-> Inf]]

\* for step in range(1, time_horizon + 1), from step on
RECURSIVE TouchLoop(_, _, _, _, _)
TouchLoop(P, V, H, step, ft) ==
    IF step > H THEN ft
    ELSE TouchLoop(P, V, H, step + 1,
           [up |-> [t \in 1..Len(P) |->
                      RecordTouch(HitUp(P, V, t, step), ft.up[t], step)],
            down |-> [t \in 1..Len(P) |->
                      RecordTouch(HitDown(P, V, t, step), ft.down[t], step)]])

\* is_profit = (first_touch_up != np.inf) & (first_touch_up < first_touch_down)
IsProfit(ft, t) == ft.up[t] # Inf /\ ft.up[t] < ft.down[t]

\* variant: a move equal to min_ret is worth trading
IsWorthFromThreshold(V, t) == V[t] * pt_multiplier >= min_ret

\* is_worth_trading = (volatility * pt_multiplier) > min_ret
IsWorth(V, t) == V[t] * pt_multiplier > min_ret

\* the returned Series: (is_profit & is_worth_trading).astype(int)
TripleBarrierTarget(P, V, H) ==
    LET ft == TouchLoop(P, V, H, 1, NoTouch(P))
    IN  [t \in 1..Len(P) |->
           IF IsProfit(ft, t) /\ IsWorth(V, t) THEN 1 ELSE 0]

\* one call of create_triple_barrier_target
CreateTripleBarrierTarget ==
    /\ lpc = "called"
    /\ target' = TripleBarrierTarget(prices, volatility, time_horizon)
    /\ lpc' = "returned"
    /\ UNCHANGED <<prices, volatility, time_horizon, riskVars, simVars,
                   notToolVars>>

\* one call on any series of up to NumPrices prices, with any horizon
InitBarrier ==
    /\ InitExecution
    /\ NoLossHistory
    /\ market = NoMarket
    /\ DecisionIdle
    /\ BacktestIdle
    /\ lpc = "called"
    /\ \E T \in 0..NumPrices :
          /\ prices \in [1..T -> PriceValues]
          /\ volatility \in [1..T -> VolatilityValues]
    /\ time_horizon \in 0..MaxHorizon
    /\ target = <<>>
    /\ RiskIdle
    /\ SimulateIdle

NextBarrier == CreateTripleBarrierTarget

SpecBarrier == InitBarrier /\ [][NextBarrier]_vars

\* ------------------------------------------------------------ RiskManager
\* the literals 0 and 0.1 of the sanity check; 0.1 is a float, the double
\* nearest to one tenth, and a Decimal is compared with it by exact value
Zero == Fraction(0, 0)
FloatTenth == Fraction(100, 2)

\* x < y
Less(x, y) ==
    \/ x.milli < y.milli
    \/ x.milli = y.milli /\ x.excess < y.excess

\* 0 < risk_per_trade_pct < 0.1
InRange(x) == Less(Zero, x) /\ Less(x, FloatTenth)

\* the arguments a caller may give
RiskArgs ==
    [account_balance : {1000, 10000},
     risk_per_trade_pct : {Fraction(m, e) : m \in {-1, 0, 1, 99, 100, 101},
                                            e \in 0..3},
     df_len : {0, 19, 20},
     current_atr : {0, 5},
     entry_price : {100},
     signal_type : {"BUY", "SELL", "HOLD"}]

\* RiskManager(account_balance, risk_per_trade_pct, df_ohlcv)
Construct ==
    /\ rpc = "called"
    /\ IF ~InRange(rmArgs.risk_per_trade_pct)
       THEN /\ rpc' = "ValueError"
            /\ rm' = rm
       ELSE /\ rpc' = "constructed"
            /\ rm' = [built |-> TRUE,
                      account_balance |-> rmArgs.account_balance,
                      risk_per_trade_pct |-> rmArgs.risk_per_trade_pct,
                      risk_amount |->
                        [balance |-> rmArgs.account_balance,
                         pct |-> rmArgs.risk_per_trade_pct]]
    /\ UNCHANGED <<rmArgs, rmResult, labVars, simVars, notToolVars>>

\* x.quantize(Decimal('0.0001')) of a quotient that is kept as its terms
Quantize(x, places) == <<x, places>>

\* calculate_trade_parameters(entry_price, signal_type); the stop distance is
\* 2 * ATR, the target 1.5 stop distances away
CalculateTradeParameters ==
    /\ rpc = "constructed"
    /\ LET stop_loss_pips == rmArgs.current_atr * 2
           buy == rmArgs.signal_type = "BUY"
       IN  rmResult' =
             IF rmArgs.df_len < 20 THEN [NoParameters EXCEPT !.returned = "None"]
             ELSE IF rmArgs.signal_type \notin {"BUY", "SELL"}
                  THEN [NoParameters EXCEPT !.returned = "None"]
             ELSE IF stop_loss_pips = 0
                  THEN [NoParameters EXCEPT !.returned = "None"]
             ELSE [returned |-> "tuple",
                   position_size |->
                     Quantize([amount |-> rm.risk_amount,
                               per |-> stop_loss_pips], 4),
                   stop_loss |-> IF buy THEN rmArgs.entry_price - stop_loss_pips
                                 ELSE rmArgs.entry_price + stop_loss_pips,
                   take_profit |->
                     IF buy
                     THEN rmArgs.entry_price + (stop_loss_pips * 3) \div 2
                     ELSE rmArgs.entry_price - (stop_loss_pips * 3) \div 2]
    /\ rpc' = "returned"
    /\ UNCHANGED <<rmArgs, rm, labVars, simVars, notToolVars>>

\* one RiskManager built from any of the arguments and asked once
InitRisk ==
    /\ InitExecution
    /\ NoLossHistory
    /\ market = NoMarket
    /\ DecisionIdle
    /\ BacktestIdle
    /\ BarrierIdle
    /\ rpc = "called"
    /\ rmArgs \in RiskArgs
    /\ rm = NoManager
    /\ rmResult = NoParameters
    /\ SimulateIdle

NextRisk ==
    \/ Construct
    \/ CalculateTradeParameters

SpecRisk == InitRisk /\ [][NextRisk]_vars

\* ------------------------------------------------- simulate_final_system
\* prices in cents. A trade is held for at most 24 bars, its stop is at least
\* 2.0 away, signals below a probability of 0.60 (in hundredths) are
\* filtered out, and 0.5% of the equity is risked per trade
HoldingBars == 24
MinStopDist == 200
MLFilter == 60
RiskPermille == 5
\* X['vol_std'], in hundredths, the same on every row
VolStd == 1

\* SPREAD + COMMISSION, and SLIP_FACTOR in hundredths, doubled under --stress
Costs(stress) == IF stress THEN 60 + 20 ELSE 30 + 10
SlipFactor(stress) == IF stress THEN 20 ELSE 10

\* the rows of prices_df: a quiet bar around 100.00, one whose low reaches
\* 98.00 and one whose high reaches 104.00
QuietBar == [open |-> 10000, low |-> 9900, high |-> 10100, close |-> 10000]
SimBars == {QuietBar, [QuietBar EXCEPT !.low = 9800],
            [QuietBar EXCEPT !.high = 10400]}

\* prices_df of N rows, numbered from 0: quiet but for at most one row
Frames(N) ==
    {[i \in 0..(N - 1) |-> IF i = k THEN r ELSE QuietBar] :
       k \in 0..(N - 1), r \in SimBars}

\* the positions in S in increasing order, as np.where returns them
RECURSIVE Ascending(_)
Ascending(S) ==
    IF S = {} THEN <<>>
    ELSE LET m == CHOOSE x \in S : \A y \in S : x <= y
         IN  <<m>> \o Ascending(S \ {m})

\* the inputs of the loop
SimInputs ==
    UNION {[stress : BOOLEAN, prices_df : Frames(N),
            indices : {Ascending(S) : S \in SUBSET (0..(NumSignalBars - 1))},
            preds : [0..(NumSignalBars - 1) -> {MLFilter - 1, MLFilter}]] :
           N \in (HoldingBars + 1)..NumSimBars}

\* len(prices_df)
FrameLen(df) == Cardinality(DOMAIN df)

\* stop_dist = max(2.0, entry_price * vol * 1.5)
StopDist(entry_price) ==
    LET d == (entry_price * VolStd * 3) \div 200
    IN  IF d > MinStopDist THEN d ELSE MinStopDist

\* the outcome loop and the time exit of the signal at idx: the bar the
\* position is closed on and outcome_pnl
SimOutcome(in, idx) ==
    LET df == in.prices_df
        entry_price == df[idx + 1].open
        stop_dist == StopDist(entry_price)
        sl_price == entry_price - stop_dist
        tp_price == entry_price + stop_dist * 2
        touched == {i \in (idx + 1)..(idx + HoldingBars) :
                      df[i].low <= sl_price \/ df[i].high >= tp_price}
        first == CHOOSE i \in touched : \A j \in touched : i <= j
        slip == (VolStd * entry_price * SlipFactor(in.stress)) \div 10000
        broke == IF touched = {} THEN [exit_bar |-> idx + HoldingBars, pnl |-> 0]
                 ELSE IF df[first].low <= sl_price
                      THEN [exit_bar |-> first,
                            pnl |-> (sl_price - slip - entry_price)
                                      - Costs(in.stress)]
                 ELSE [exit_bar |-> first,
                       pnl |-> (tp_price - entry_price) - Costs(in.stress)]
    IN  IF broke.pnl = 0
        THEN [exit_bar |-> idx + HoldingBars,
              pnl |-> (df[idx + HoldingBars].close - entry_price)
                        - Costs(in.stress),
              stop_dist |-> stop_dist]
        ELSE [exit_bar |-> broke.exit_bar, pnl |-> broke.pnl,
              stop_dist |-> stop_dist]

\* trades = [], equity = [initial_capital]
SimulateStart ==
    /\ spc = "start"
    /\ sim_trades' = <<>>
    /\ sim_equity' = <<[capital |-> InitialCapital, outcomes |-> <<>>]>>
    /\ sk' = 0
    /\ spc' = "loop"
    /\ UNCHANGED <<sim, labVars, riskVars, notToolVars>>

\* one iteration of for idx in indices
SimulateSignal ==
    /\ spc = "loop"
    /\ sk < Len(sim.indices)
    /\ LET idx == sim.indices[sk + 1]
           out == SimOutcome(sim, idx)
           last == sim_equity[Len(sim_equity)]
           balance == [last EXCEPT !.outcomes =
                         Append(@, [pnl |-> out.pnl,
                                    stop_dist |-> out.stop_dist,
                                    risk |-> RiskPermille])]
       IN  IF idx + HoldingBars >= FrameLen(sim.prices_df)
              \/ sim.preds[idx] < MLFilter
           THEN UNCHANGED <<sim_trades, sim_equity>>
           ELSE /\ sim_equity' = Append(sim_equity, balance)
                /\ sim_trades' =
                     Append(sim_trades,
                            [date |-> idx, pnl |-> out.pnl,
                             balance |-> balance, entry_bar |-> idx + 1,
                             exit_bar |-> out.exit_bar])
    /\ sk' = sk + 1
    /\ UNCHANGED <<spc, sim, labVars, riskVars, notToolVars>>

\* the loop is over
SimulateEnd ==
    /\ spc = "loop"
    /\ sk = Len(sim.indices)
    /\ spc' = IF sim_trades = <<>> THEN "no_trades" ELSE "audit"
    /\ UNCHANGED <<sim, sk, sim_trades, sim_equity, labVars, riskVars,
                   notToolVars>>

\* one simulation over any of the inputs
InitSimulate ==
    /\ InitExecution
    /\ NoLossHistory
    /\ market = NoMarket
    /\ DecisionIdle
    /\ BacktestIdle
    /\ BarrierIdle
    /\ RiskIdle
    /\ spc = "start"
    /\ sim \in SimInputs
    /\ sk = 0
    /\ sim_trades = <<>>
    /\ sim_equity = <<>>

NextSimulate ==
    \/ SimulateStart
    \/ SimulateSignal
    \/ SimulateEnd

SpecSimulate == InitSimulate /\ [][NextSimulate]_vars

\* ================================================================ claims

\* the Order rows of the signal, before and after a step
SignalOrders == OrdersOf(SignalId)
SignalOrdersAfter == {i \in 1..Len(orders') : orders'[i].signal = SignalId}

\* C1: whatever the interleaving of execute_trade calls on the signal, it
\* never has more than one Order, and a call that read a status other than
\* PENDING under the lock returns at once, leaving the signal, the orders and
\* the circuit-breaker state as they were.
C1_OneOrderAndNoOpWhenHandled ==
    [][ /\ Cardinality(SignalOrdersAfter) <= 1
        /\ \A p \in Executors :
              (pc[p] = "locked" /\ locSig[p].status # "PENDING" /\ pc'[p] # pc[p])
              => /\ pc'[p] = "idle"
                 /\ result'[p] = Ended("returned", "skipped", "")
                 /\ UNCHANGED dbVars ]_vars

\* a call on the signal, already executed into its one Order, was skipped
C1_Witness ==
    /\ signal.status = "EXECUTED"
    /\ Cardinality(SignalOrders) = 1
    /\ \E p \in Executors : pc[p] = "idle" /\ result[p].log = "skipped"

\* C2: a signal with a FILLED Order is EXECUTED, and a CANCELLED signal has
\* no Order.
C2_FilledIffExecuted ==
    /\ \A i \in SignalOrders : orders[i].status = "FILLED" => signal.status = "EXECUTED"
    /\ signal.status = "CANCELLED" => SignalOrders = {}

\* C3: once the signal is EXECUTED or CANCELLED its status never changes.
C3_StatusNeverReopened ==
    [][ signal.status \in {"EXECUTED", "CANCELLED"}
        => signal'.status = signal.status ]_vars

\* C4: the Order of an execution is never created while the committed
\* circuit-breaker state is tripped.
C4_NoOrderWhileTripped ==
    [][ \A p \in Executors :
          (pc[p] = "create_order" /\ pc'[p] = "place") => ~cb.is_tripped ]_vars

\* C5: a call whose breaker check raised ends with the signal CANCELLED, the
\* trip message in cancel_reason, no Order for the signal, and a normal return.
C5_TripCancelsWithoutOrder ==
    [][ \A p \in Executors :
          (pc[p] = "except" /\ exc[p].type = "PermissionError" /\ pc'[p] # pc[p])
          => /\ signal'.status = "CANCELLED"
             /\ signal'.cancel_reason = exc[p].msg
             /\ SignalOrdersAfter = {}
             /\ result'[p].ended = "returned" ]_vars

\* C6: after order placement raised, the signal has an Order in status FAILED
\* and is still PENDING.
C6_FailureLeavesFailedOrder ==
    [][ \A p \in Executors :
          (pc[p] = "except" /\ exc[p].type = "RuntimeError" /\ pc'[p] # pc[p])
          => /\ \E i \in SignalOrdersAfter : orders'[i].status = "FAILED"
             /\ signal'.status = "PENDING" ]_vars

C9_FillAndExecuteTogether ==
    [][ /\ \A p \in Executors :
              (pc[p] = "commit" /\ pc'[p] # pc[p])
              => /\ mode[p] = "demo"
                 /\ signal.status = "PENDING" /\ SignalOrders = {}
                 /\ signal'.status = "EXECUTED"
                 /\ Cardinality(SignalOrdersAfter) = 1
                 /\ \A i \in SignalOrdersAfter :
                       /\ orders'[i].status = "FILLED"
                       /\ orders'[i].broker_order_id = DemoOrderId(SignalId)
                 /\ result'[p] = Ended("returned", "completed", "")
        /\ (signal.status # "EXECUTED" /\ signal'.status = "EXECUTED")
              <=> (Len(orders') > Len(orders)) ]_vars

\* a demo execution has committed
C9_Witness ==
    /\ signal.status = "EXECUTED"
    /\ Len(orders) = 1
    /\ orders[1].status = "FILLED"
    /\ orders[1].broker_order_id = DemoOrderId(SignalId)
    /\ \E p \in Executors : pc[p] = "idle" /\ result[p].log = "completed"

\* C10: is_tripped goes from true to false only in the save of reset(), which
\* leaves reason and consecutive_losses cleared; no step of check(),
\* update_state() or execute_trade clears it.
C10_OnlyResetClearsTrip ==
    [][ (cb.is_tripped /\ ~cb'.is_tripped)
        => /\ \E o \in Operators : opc[o] = "reset" /\ opc'[o] = "idle"
           /\ cb'.reason = NoReason
           /\ cb'.consecutive_losses = 0 ]_vars

\* the breaker tripped and was reset (reset keeps tripped_at)
C10_Witness ==
    /\ cb.exists
    /\ cb.tripped_at = "now"
    /\ ~cb.is_tripped
    /\ cb.reason = NoReason

\* the columns of the breaker state that check() must leave alone
BreakerColumns(state) ==
    <<state.is_tripped, state.reason, state.consecutive_losses>>

\* C11: CircuitBreaker.check(), called on its own or inside execute_trade,
\* raises PermissionError exactly when the state row it reads is tripped, and
\* it leaves is_tripped, reason and consecutive_losses as they were.
C11_CheckRaisesIffTripped ==
    [][ /\ (ops' = ops + 1 /\ opc' = opc)
            => /\ \E o \in Operators :
                     opResult' = [opResult EXCEPT ![o] =
                        IF cb.is_tripped THEN "PermissionError" ELSE "returned"]
               /\ BreakerColumns(cb') = BreakerColumns(cb)
        /\ \A p \in Executors :
              (pc[p] = "locked" /\ pc'[p] \in {"rollback", "create_order"})
              => /\ pc'[p] = "rollback" <=> cb.is_tripped
                 /\ pc'[p] = "rollback" => exc'[p].type = "PermissionError"
                 /\ BreakerColumns(cb') = BreakerColumns(cb) ]_vars

\* check() has raised on a tripped breaker and left it tripped
C11_Witness ==
    /\ cb.is_tripped
    /\ \E o \in Operators : opResult[o] = "PermissionError"

C13_TripsOnConsecutiveLosses ==
    [][ \A o \in Operators :
          (/\ opc[o] = "update_state" /\ opc'[o] = "idle"
           /\ lossHistory >= MaxConsecutiveLosses)
          => cb'.is_tripped ]_vars

\* C14: however often and however concurrently run_analysis is invoked on
\* the opportunity, no two TradingSignal rows carry the same key.
C14_OneSignalPerKey ==
    \A i, j \in 1..Len(signals) :
        signals[i].timestamp = signals[j].timestamp => i = j

\* the entry condition, the regime gate and the classifier of the snapshot
EntryConditionHolds ==
    /\ market.above_ema
    /\ market.h1_rsi < 45
    /\ market.h1_adx > 20
    /\ market.green
RegimeGatePasses == market.d1_atr >= 15 /\ market.d1_adx >= 20
ScoreReachesThreshold ==
    /\ market.registry = "active"
    /\ market.infer_ok
    /\ market.ml_prob >= 60

C16_FailuresEndQuietly ==
    (\/ ~market.load_ok
     \/ market.h1_len < 200 \/ market.d1_len < 50
     \/ market.registry # "active"
     \/ ~market.infer_ok)
    => /\ signals = <<>>
       /\ \A d \in Deciders : dResult[d].ended # "raised"

\* the recorded trades follow one another without overlap, the open position
\* follows the last of them, and each trade ends after it began
TradesInSequence ==
    /\ \A k \in 1..Len(trades) : trades[k].exit_time > trades[k].entry_time
    /\ \A k \in 1..(Len(trades) - 1) :
          trades[k + 1].entry_time >= trades[k].exit_time
    /\ (in_position # 0 /\ trades # <<>>)
          => position_details.entry_time >= trades[Len(trades)].exit_time

C18_ClosedAtHorizon ==
    (bpc \in {"loop", "done"} /\ in_position # 0)
    => (bar - 1) - position_details.entry_time < config.max_holding_horizon

EquityCurveShape ==
    bpc \in {"loop", "done"}
    => /\ equity[1] = [capital |-> 10000, growth |-> <<>>]
       /\ Len(equity) = Len(trades) + 1
       /\ Len(dates) = Len(equity)
       /\ \A k \in 1..(Len(dates) - 1) : dates[k] <= dates[k + 1]

\* C20: the equity curve starts with the initial capital, gets exactly one
\* point per closed trade, is ordered in time, and the points it has are
\* never changed.
C20_EquityAppendOnly ==
    [][ /\ EquityCurveShape'
        /\ bpc \in {"loop", "done"}
             => /\ SubSeq(equity', 1, Len(equity)) = equity
                /\ SubSeq(dates', 1, Len(dates)) = dates
                /\ Len(equity') - Len(equity) = Len(trades') - Len(trades) ]_vars

\* a finished backtest of two trades, its curve of three points
C20_Witness ==
    /\ report.returned
    /\ report.num_trades = 2
    /\ Len(equity) = 3
    /\ equity[3].growth = <<trades[1].pnl_pct, trades[2].pnl_pct>>

\* C21: with an empty frame, or with no long or short signal on any row,
\* run_vectorized_backtest returns total return 0, Sharpe 0, maximum drawdown
\* 0, no trades and the initial capital as final capital.
C21_NeutralWithoutSignals ==
    [][ (bpc = "loop" /\ bar >= numRows /\ (numRows = 0 \/ ~any_signal))
        => /\ bpc' = "done"
           /\ report'.returned
           /\ report'.total_return_pct = Literal(0)
           /\ report'.sharpe_ratio = Literal(0)
           /\ report'.max_drawdown_pct = Literal(0)
           /\ report'.trades = <<>>
           /\ report'.num_trades = 0
           /\ report'.final_capital = [capital |-> 10000, growth |-> <<>>] ]_vars

\* a frame of several rows without a signal was replayed and the neutral
\* result returned
C21_Witness ==
    /\ bpc = "done"
    /\ numRows >= 3
    /\ ~any_signal
    /\ report.returned
    /\ report.sharpe_ratio = Literal(0)

\* C25: a bar that satisfies both the stop condition and the target condition
\* of the open position closes it as a stop exit, at the stop price, for a
\* long position and mirrored for a short one.
C25_StopBeforeTarget ==
    [][ (/\ bpc = "loop" /\ bar' = bar + 1
         /\ in_position # 0
         /\ config.stop_loss_pct # 0 /\ config.take_profit_pct # 0
         /\ IF in_position = 1
            THEN /\ current_row'.low <= position_details.stop_price
                 /\ current_row'.high >= position_details.tp_price
            ELSE /\ current_row'.high >= position_details.stop_price
                 /\ current_row'.low <= position_details.tp_price)
        => /\ Len(trades') = Len(trades) + 1
           /\ trades'[Len(trades')].exit_reason = "SL"
           /\ trades'[Len(trades')].exit_time = bar
           /\ trades'[Len(trades')].pnl_pct =
                IF in_position = 1
                THEN [num |-> position_details.stop_price * 9997
                                - position_details.entry_price_after_costs,
                      den |-> position_details.entry_price_after_costs]
                ELSE [num |-> position_details.entry_price_after_costs
                                - position_details.stop_price * 10003,
                      den |-> position_details.stop_price * 10003] ]_vars

\* a short position was stopped out on a bar whose low had reached its target
\* as well
C25_Witness ==
    /\ bpc = "loop"
    /\ trades # <<>>
    /\ LET last == trades[Len(trades)]
           stop == last.pnl_pct.den \div 10003
           entry == (stop * 100) \div 102
       IN  /\ last.trade_type = "SHORT"
           /\ last.exit_reason = "SL"
           /\ last.exit_time = bar - 1
           /\ current_row.high >= stop
           /\ current_row.low <= (entry * 96) \div 100

\* C26: on each closed trade the equity changes by the trade's percentage
\* return times the position size, the position size being the equity at
\* entry times the risk fraction over the stop distance. The code changes the
\* equity by pnl_pct times the whole equity; with the stop distance taken as
\* the fraction stop_loss_pct of the entry price the two agree only when the
\* return is zero or the risk fraction equals stop_loss_pct.
C26_EquityChangeIsRiskSized ==
    \A k \in 1..Len(trades) :
        config.stop_loss_pct # 0
        => trades[k].pnl_pct.num * config.stop_loss_pct
             = trades[k].pnl_pct.num * config.risk_per_trade_fraction

\* C28: no position is entered on the bar that closed the previous one: each
\* trade, and the open position, begins strictly after the preceding trade's
\* exit_time.
C28_NoEntryOnExitBar ==
    /\ \A k \in 1..(Len(trades) - 1) :
          trades[k + 1].entry_time > trades[k].exit_time
    /\ (in_position # 0 /\ trades # <<>>)
          => position_details.entry_time > trades[Len(trades)].exit_time

\* C24: every write execute_trade makes to the signal's status or to an
\* Order's status is made by the caller holding the signal's row lock, inside
\* its transaction.
C24_WritesUnderTheLock ==
    [][ /\ (signal' # signal \/ orders' # orders)
           => \E p \in Executors : lockHolder = p /\ pc[p] = "commit"
        /\ \A p \in Executors :
             (txOrder'[p] # txOrder[p] \/ txSignal'[p] # txSignal[p])
             => lockHolder = p ]_vars

\* C29: an attempt that failed and left the signal PENDING leaves nothing in
\* the way of a later one: a call that finds the signal PENDING under the lock
\* and passes the breaker inserts its Order without being refused, its commit
\* leaves the signal EXECUTED with its one Order FILLED, and the signal never
\* has a second Order.
C29_RetryAfterFailureNotBlocked ==
    [][ /\ \A p \in Executors :
             /\ (pc[p] = "create_order" /\ pc'[p] # pc[p])
                  => (SignalOrders = {} /\ pc'[p] = "place")
             /\ (pc[p] = "commit" /\ pc'[p] # pc[p])
                  => /\ signal'.status = "EXECUTED"
                     /\ \A i \in SignalOrdersAfter : orders'[i].status = "FILLED"
                     /\ Cardinality(SignalOrdersAfter) = 1
        /\ Cardinality(SignalOrdersAfter) <= 1 ]_vars

\* one caller's attempt failed in _process_order, another's then executed the
\* signal into its single FILLED Order
C29_Witness ==
    /\ signal.status = "EXECUTED"
    /\ Cardinality(SignalOrders) = 1
    /\ \A i \in SignalOrders : orders[i].status = "FILLED"
    /\ \E p, q \in Executors :
          /\ result[p] = Ended("returned", "failed", "RuntimeError")
          /\ result[q] = Ended("returned", "completed", "")

\* the first step within the horizon at which index t touches a barrier, Inf
\* when it touches none
FirstStep(S) == IF S = {} THEN Inf ELSE CHOOSE s \in S : \A r \in S : s <= r
FirstUp(t) ==
    FirstStep({s \in 1..time_horizon :
                 /\ t + s <= Len(prices)
                 /\ prices[t + s] * VolScale
                      >= prices[t] * (VolScale + 2 * volatility[t])})
FirstDown(t) ==
    FirstStep({s \in 1..time_horizon :
                 /\ t + s <= Len(prices)
                 /\ 2 * prices[t + s] * VolScale
                      <= prices[t] * (2 * VolScale - 3 * volatility[t])})

\* C22: the returned series has one label per index; the label of t is 1
\* exactly when the upper barrier is first touched strictly before the lower
\* one (an untouched barrier counting as infinitely late) and volatility *
\* pt_multiplier exceeds min_ret, and 0 otherwise; so a simultaneous first
\* touch gives 0 and a move not above min_ret gives 0 whatever the prices.
C22_LabelDefinition ==
    lpc = "returned" =>
      /\ DOMAIN target = DOMAIN prices
      /\ \A t \in DOMAIN prices :
           /\ target[t] \in {0, 1}
           /\ target[t] = 1 <=> (/\ FirstUp(t) < FirstDown(t)
                                 /\ 2 * volatility[t] > min_ret)
           /\ FirstUp(t) = FirstDown(t) => target[t] = 0
           /\ 2 * volatility[t] <= min_ret => target[t] = 0

\* a series labelled 1 at one index, at another 0 although its upper barrier
\* is touched first, the move being exactly min_ret, and with an index whose
\* two barriers are first touched at the same step
C22_Witness ==
    /\ lpc = "returned"
    /\ \E t, u \in DOMAIN prices :
          /\ target[t] = 1
          /\ target[u] = 0
          /\ FirstUp(u) < FirstDown(u)
          /\ 2 * volatility[u] = min_ret
    /\ \E w \in DOMAIN prices :
          FirstUp(w) = FirstDown(w) /\ FirstUp(w) # Inf

\* C30: a label that is 1 with the horizon of the call is 1 with every
\* larger horizon, the series and the other parameters being the same.
C30_HorizonMonotone ==
    lpc = "returned" =>
      \A H \in (time_horizon + 1)..MaxHorizon :
        \A t \in DOMAIN prices :
          target[t] = 1 => TripleBarrierTarget(prices, volatility, H)[t] = 1

\* a label 1 whose lower barrier is touched beyond the horizon of the call
C30_Witness ==
    /\ lpc = "returned"
    /\ \E t \in DOMAIN prices :
          /\ target[t] = 1
          /\ \E s \in (time_horizon + 1)..MaxHorizon :
                HitDown(prices, volatility, t, s)

\* C23: the constructor accepts the risk fraction exactly when it is above 0
\* and at most 0.1, and raises for every other value.
C23_AcceptsUpToTenth ==
    rpc # "called" =>
      LET x == rmArgs.risk_per_trade_pct
      IN  /\ rpc = "ValueError" <=> ~(Less(Zero, x) /\ ~Less(Fraction(100, 0), x))
          /\ rpc # "ValueError" => rm.built /\ rm.risk_per_trade_pct = x

\* C27: the trades of the simulation never overlap in time: no trade is
\* entered before the bar on which the trade before it was closed.
C27_SimulatedTradesNeverOverlap ==
    \A j, k \in DOMAIN sim_trades :
       j < k => sim_trades[k].entry_bar >= sim_trades[j].exit_bar

====
